---- MODULE Spec2Model ----
(***************************************************************************)
(* divecrawl: the crawl engine of src/LinkChecker.ts.                      *)
(*                                                                         *)
(* JavaScript runs every callback to completion on one thread, so one      *)
(* action of this model is one such callback: run() up to its await, the   *)
(* continuation of processUrl after the interval timer, after the HEAD,    *)
(* after the GET, the finally callback (with the check() it calls), and    *)
(* the continuation of run() after the promise has been resolved.          *)
(*                                                                         *)
(* A URL string is a record [host, path, hash]; a log line and an error    *)
(* message are sequences of text tokens.  logger.info / logger.debug lines *)
(* are not recorded (they never reach logger.error).                       *)
(***************************************************************************)
EXTENDS Integers, Sequences, FiniteSets, Bags, TLC

(***************************************************************************)
(* Bounds of the model                                                     *)
(***************************************************************************)
MaxConcurrency == 2
MaxPre == 1

(***************************************************************************)
(* URLs                                                                    *)
(***************************************************************************)
MkUrl(h, p) == [host |-> h, path |-> p, hash |-> ""]

BaseHost == "example.com"
OtherHost == "external.com"

\* baseUrl.href: the seed, as run() pushes it
Seed == MkUrl(BaseHost, "/")
PageA == MkUrl(BaseHost, "/a")
PageB == MkUrl(BaseHost, "/b")
Ext == MkUrl(OtherHost, "/")

Urls == {Seed, PageA, PageB, Ext}

\* the URLs the queue is filled with by hand before run()
PreUrls == {PageA, Ext}

\* new URL(u).hostname
hostname(u) == u.host

\* the string given to the constructor, as new URL() splits it
Target(s, h, p) == [scheme |-> s, host |-> h, path |-> p]

\* "https://example.com", and "example.com", which has no scheme
TargetUrls == {Target("https:", BaseHost, ""), Target("", BaseHost, "")}

\* line 20 with a parser that accepts everything
ParsesAsUrl_Always(t) == TRUE

\* line 20: new URL(targetUrl) does not throw
ParsesAsUrl(t) == t.scheme # ""

(***************************************************************************)
(* The HTTP client and the server behind it                                *)
(***************************************************************************)
\* validateStatus of the axios instance: "all" accepts every status
\* (index.ts), "2xx" is the axios default (the instance of the tests).
ValidateModes == {"all", "2xx"}

Statuses == {200, 404}
StatusText == [s \in Statuses |-> IF s = 200 THEN "200" ELSE "404"]

ValidateStatus(mode, s) == mode = "all" \/ (s >= 200 /\ s < 300)

\* content-type header of a HEAD response; "" is a missing header
ContentTypes == {"text/html; charset=utf-8", "text/plain", ""}
IncludesTextHtml(ct) == ct \in {"text/html; charset=utf-8", "text/html"}

\* err.message of a rejected request
StatusError(s) == <<"Request failed with status code ", StatusText[s]>>
NetErrors == {<<"Network Error">>}

\* request.responseUrl of a response: the URL a redirect ended at, or absent
NoResponseUrl == <<>>
RedirectTargets == {PageB, Ext}
ResponseUrls == {<<u>> : u \in RedirectTargets} \cup {NoResponseUrl}

HeadResponses == [status : Statuses, contentType : ContentTypes, responseUrl : ResponseUrls]

(***************************************************************************)
(* HTML documents: the href attributes of the anchors, in document order   *)
(***************************************************************************)
Rel(p, h) == [kind |-> "rel", host |-> "", path |-> p, hash |-> h]
Abs(ho, p, h) == [kind |-> "abs", host |-> ho, path |-> p, hash |-> h]
BadHref == [kind |-> "bad", host |-> "", path |-> "", hash |-> ""]
\* <a href="">
EmptyHref == [kind |-> "empty", host |-> "", path |-> "", hash |-> ""]

Pages == { <<>>,
           <<Rel("/a", ""), EmptyHref, Abs(OtherHost, "/", "")>>,
           <<Rel("/a", "#top"), Rel("/a", ""), BadHref, Rel("/b", "")>>,
           <<Rel("/", ""), Abs(BaseHost, "/b", "#x")>> }

\* new URL(href, baseUrl) succeeds
Resolves(href) == href.kind # "bad"

\* new URL(href, baseUrl); the empty reference resolves to the base
ResolveUrl(href, base) ==
  IF href.kind = "abs"
    THEN [host |-> href.host, path |-> href.path, hash |-> href.hash]
    ELSE IF href.kind = "empty"
      THEN [host |-> base.host, path |-> base.path, hash |-> ""]
      ELSE [host |-> base.host, path |-> href.path, hash |-> href.hash]

\* line 109: if (!href) return
HasHref(href) == href.kind # "empty"

\* abs.hash = ''
StripHash(u) == [u EXCEPT !.hash = ""]

\* [...new Set(discovered)]: first occurrences, in order
RECURSIVE Dedup(_)
Dedup(s) ==
  IF s = <<>> THEN <<>>
  ELSE LET d == Dedup(SubSeq(s, 1, Len(s) - 1))
           x == s[Len(s)]
       IN  IF \E i \in 1..Len(d) : d[i] = x THEN d ELSE Append(d, x)

\* line 116, always true
SameHost_Any(u) == TRUE

\* the test of line 116
SameHost(u) == hostname(u) = BaseHost

RECURSIVE Discovered(_, _)
Discovered(html, base) ==
  IF html = <<>> THEN <<>>
  ELSE LET href == Head(html)
           rest == Discovered(Tail(html), base)
       IN  IF ~HasHref(href) \/ ~Resolves(href) THEN rest
           ELSE LET normalized == StripHash(ResolveUrl(href, base))
                IN  IF SameHost(normalized) THEN <<normalized>> \o rest ELSE rest

extractLinks(html, base) == Dedup(Discovered(html, base))

\* every anchor target of a page that resolves, fragment removed
AnchorTargets(html, base) ==
  { StripHash(ResolveUrl(html[i], base)) : i \in {j \in 1..Len(html) : Resolves(html[j])} }

(***************************************************************************)
(* State                                                                   *)
(***************************************************************************)
VARIABLES
  concurrency,     \* options.concurrency; 0 also stands for a missing or unparsable
                   \* value (undefined, NaN): the test of line 35 is false for it too
  interval,        \* options.interval
  validateMode,    \* client.defaults.validateStatus
  visited,         \* this.visited
  queue,           \* this.queue
  results,         \* this.results: a function whose domain is the set of keys
  activeWorkers,   \* this.activeWorkers
  tasks,           \* bag of processUrl calls whose finally callback has not run
  runPc,           \* position of run()
  resolveCount,    \* number of calls of resolve()
  headCount,       \* number of client.head(u) calls, per URL
  getCount,        \* number of client.get(u) calls, per URL
  errorLog,        \* the lines passed to logger.error
  report,          \* the lines printReport writes to the console
  headAnswers,     \* the answers to HEAD requests: URL asked, status, redirected or not, final URL
  probed,          \* the answers processUrl went on with: final URL, status, HTML or not
  everQueued,      \* every URL that was ever pushed to the queue
  linked,          \* every anchor target seen on a parsed page
  setCount,        \* number of this.results.set(u, ...) calls, per key
  screenshots,     \* the calls of options.screenshot(url, html), in order
  parsed,          \* the calls of extractLinks: page URL, document, links returned
  targetUrl,       \* the targetUrl given to the constructor
  timers,          \* the URLs of the tasks sleeping at line 66, in the order the timers were set
  requests,        \* the calls of client.head and client.get, in order
  enqueueOrder     \* the URLs pushed to the queue, in the order of their first push, and who pushed them

vars == <<concurrency, interval, validateMode, visited, queue, results,
          activeWorkers, tasks, runPc, resolveCount, headCount, getCount,
          errorLog, report, headAnswers, probed, everQueued, linked, setCount, screenshots, parsed, targetUrl, timers, requests, enqueueOrder>>

Intervals == {0, 10}

RECURSIVE SeqsUpTo(_, _)
SeqsUpTo(S, n) ==
  IF n = 0 THEN {<<>>}
  ELSE LET shorter == SeqsUpTo(S, n - 1)
       IN  shorter \cup {Append(q, u) : q \in shorter, u \in S}

SeqRange(s) == {s[i] : i \in 1..Len(s)}

\* a request of the client
Req(m, u) == [method |-> m, url |-> u]

\* the pushes of URLs not pushed before, appended to the order of first pushes;
\* origin is "hand", "seed" (line 29) or "link" (line 93, from the page given)
RECURSIVE NoteEnqueued(_, _, _, _)
NoteEnqueued(order, pushed, origin, page) ==
  IF pushed = <<>> THEN order
  ELSE LET u == Head(pushed)
           next == IF \E i \in 1..Len(order) : order[i].url = u
                     THEN order
                     ELSE Append(order, [url |-> u, origin |-> origin, page |-> page])
       IN  NoteEnqueued(next, Tail(pushed), origin, page)

\* the state after new LinkChecker(...): the constructor has returned, and the
\* queue may have been filled by hand as the test of the concurrent run does,
\* or it has thrown at line 20 and there is no object to run
Init ==
  /\ targetUrl \in TargetUrls
  /\ concurrency \in 0..MaxConcurrency
  /\ interval \in Intervals
  /\ validateMode \in ValidateModes
  /\ visited = {}
  /\ queue \in IF ParsesAsUrl(targetUrl) THEN SeqsUpTo(PreUrls, MaxPre) ELSE {<<>>}
  /\ results = <<>>
  /\ activeWorkers = 0
  /\ tasks = EmptyBag
  /\ runPc = IF ParsesAsUrl(targetUrl) THEN "constructed" ELSE "failed"
  /\ resolveCount = 0
  /\ headCount = [u \in Urls |-> 0]
  /\ getCount = [u \in Urls |-> 0]
  /\ errorLog = {}
  /\ report = <<>>
  /\ headAnswers = {}
  /\ probed = {}
  /\ everQueued = SeqRange(queue)
  /\ linked = {}
  /\ setCount = [u \in Urls |-> 0]
  /\ screenshots = <<>>
  /\ parsed = {}
  /\ timers = <<>>
  /\ requests = <<>>
  /\ enqueueOrder = NoteEnqueued(<<>>, queue, "hand", Seed)

(***************************************************************************)
(* processUrl up to its first suspension, and the dispatch loop of check() *)
(***************************************************************************)
\* a processUrl call: the URL it was given, where it is suspended, and the
\* final URL it has determined (its own URL until the HEAD has returned)
Task(u, pc, f) == [url |-> u, pc |-> pc, finalUrl |-> f]

AddTask(b, t) == b (+) SetToBag({t})
RemoveTask(b, t) == b (-) SetToBag({t})
InFlight == BagToSet(tasks)

\* line 60: this.visited.has(url)
AlreadyVisited(v, u) == u \in v

\* line 76, never taken
RedirectVisited_Never(v, f, u) == FALSE

\* line 76 without the comparison of the two URLs
RedirectVisited_AnyVisited(v, f, u) == f \in v

\* line 76: finalUrl !== url && this.visited.has(finalUrl)
RedirectVisited(v, f, u) == f # u /\ f \in v

\* line 77, forgotten
ClaimFinal_Forgotten(v, f, u) == v

\* line 77: if (finalUrl !== url) this.visited.add(finalUrl)
ClaimFinal(v, f, u) == IF f # u THEN v \cup {f} ELSE v

\* line 92: !this.visited.has(link)
LinkUnvisited(v, link) == link \notin v

\* line 65: options.interval > 0
MustSleep == interval > 0

\* the part of the scheduler's state the dispatch loop works on
SchedState == [visited |-> visited, queue |-> queue, activeWorkers |-> activeWorkers,
               tasks |-> tasks, headCount |-> headCount, timers |-> timers,
               requests |-> requests]

\* processUrl with the URL added to the visited set only on the path that
\* does not sleep
StartProcessUrl_NoClaimBeforeSleep(st, u) ==
  IF AlreadyVisited(st.visited, u)
    THEN [st EXCEPT !.tasks = AddTask(@, Task(u, "settled", u))]
    ELSE IF MustSleep
      THEN [st EXCEPT !.timers = Append(@, u),
                      !.tasks = AddTask(@, Task(u, "sleep", u))]
      ELSE [st EXCEPT !.visited = @ \cup {u},
                      !.headCount[u] = @ + 1,
                      !.requests = Append(@, Req("HEAD", u)),
                      !.tasks = AddTask(@, Task(u, "head", u))]

\* processUrl(url), from its call to its first await (or its return)
StartProcessUrl(st, u) ==
  IF AlreadyVisited(st.visited, u)
    THEN [st EXCEPT !.tasks = AddTask(@, Task(u, "settled", u))]
    ELSE IF MustSleep
      THEN [st EXCEPT !.visited = @ \cup {u},
                      !.timers = Append(@, u),
                      !.tasks = AddTask(@, Task(u, "sleep", u))]
      ELSE [st EXCEPT !.visited = @ \cup {u},
                      !.headCount[u] = @ + 1,
                      !.requests = Append(@, Req("HEAD", u)),
                      !.tasks = AddTask(@, Task(u, "head", u))]

\* line 35 with <= for <
CanDispatch_Inclusive(aw, q) == aw <= concurrency /\ Len(q) > 0

\* line 35: the condition of the while loop
CanDispatch(aw, q) == aw < concurrency /\ Len(q) > 0

\* lines 36-43 taking the URL pushed last
DispatchOne_Lifo(st) ==
  StartProcessUrl([st EXCEPT !.queue = SubSeq(@, 1, Len(@) - 1), !.activeWorkers = @ + 1],
                  st.queue[Len(st.queue)])

\* lines 36-43: one iteration of the loop
DispatchOne(st) ==
  StartProcessUrl([st EXCEPT !.queue = Tail(@), !.activeWorkers = @ + 1], Head(st.queue))

RECURSIVE DispatchLoop(_)
DispatchLoop(st) ==
  IF CanDispatch(st.activeWorkers, st.queue) THEN DispatchLoop(DispatchOne(st)) ELSE st

\* line 47 with || for &&
Terminated_Or(q, aw) == Len(q) = 0 \/ aw = 0

\* line 47 without the test of the workers
Terminated_QueueOnly(q, aw) == Len(q) = 0

\* line 47 without the test of the queue
Terminated_WorkersOnly(q, aw) == aw = 0

\* line 47 with one worker still running
Terminated_OneLeft(q, aw) == Len(q) = 0 /\ aw <= 1

\* line 47: the termination test
Terminated(q, aw) == Len(q) = 0 /\ aw = 0

\* check(), called in the scheduler state st: the loop, then the test
check(st) ==
  LET d == DispatchLoop(st)
  IN  /\ visited' = d.visited
      /\ queue' = d.queue
      /\ activeWorkers' = d.activeWorkers
      /\ tasks' = d.tasks
      /\ headCount' = d.headCount
      /\ timers' = d.timers
      /\ requests' = d.requests
      /\ IF Terminated(d.queue, d.activeWorkers)
           THEN /\ resolveCount' = resolveCount + 1
                /\ runPc' = IF runPc = "done" THEN "done" ELSE "resolved"
           ELSE /\ resolveCount' = resolveCount
                /\ runPc' = IF runPc = "constructed" THEN "awaiting" ELSE runPc

(***************************************************************************)
(* Results                                                                 *)
(***************************************************************************)
\* a status is a number (num) or a text
NumStatus(s) == [num |-> TRUE, code |-> s, text |-> <<>>]

\* line 100, without the "ERR: " marker
ErrStatus_NoPrefix(msg) == [num |-> FALSE, code |-> 0, text |-> msg]

\* line 100: `ERR: ${err.message}`
ErrStatus(msg) == [num |-> FALSE, code |-> 0, text |-> <<"ERR: ">> \o msg]

CrawlResult(u, st, ext) == [url |-> u, status |-> st, isExternal |-> ext]

\* Map.set
MapSet(m, k, v) == [x \in (DOMAIN m) \cup {k} |-> IF x = k THEN v ELSE m[x]]

\* line 99, with a message lost
ErrorLine_NoMessage(u, msg) == [url |-> u, message |-> <<>>]

\* line 99: the line given to logger.error, which names the URL and the message
ErrorLine(u, msg) == [url |-> u, message |-> msg]

\* line 100: the result the catch block records
CaughtResult(u, msg) == CrawlResult(u, ErrStatus(msg), FALSE)

\* line 80
IsInternal(u) == hostname(u) = BaseHost

\* line 87, without the test of the host
Qualifies_AnyHost(u, ct, s) == IncludesTextHtml(ct) /\ s = 200

\* line 87
Qualifies(u, ct, s) == IsInternal(u) /\ IncludesTextHtml(ct) /\ s = 200

\* line 73: headRes.request.responseUrl || url
FinalUrl(resp, u) == IF resp.responseUrl = NoResponseUrl THEN u ELSE resp.responseUrl[1]

(***************************************************************************)
(* Actions                                                                 *)
(***************************************************************************)
\* run(), lines 28-53, up to the await: push the seed, first check()
RunStart ==
  /\ runPc = "constructed"
  /\ everQueued' = everQueued \cup {Seed}
  /\ enqueueOrder' = NoteEnqueued(enqueueOrder, <<Seed>>, "seed", Seed)
  /\ check([SchedState EXCEPT !.queue = Append(queue, Seed)])
  /\ UNCHANGED <<concurrency, interval, validateMode, results, getCount,
                 errorLog, report, headAnswers, probed, linked, setCount,
                 screenshots, parsed, targetUrl>>

\* a task moves on: its record in the bag is replaced
Moved(t, pc, f) == AddTask(RemoveTask(tasks, t), Task(t.url, pc, f))

\* lines 66-72: the interval timer fires, the HEAD is sent; timers of the
\* same delay fire in the order they were set
SleepDone(t) ==
  /\ t \in InFlight /\ t.pc = "sleep"
  /\ timers # <<>> /\ Head(timers) = t.url
  /\ timers' = Tail(timers)
  /\ headCount' = [headCount EXCEPT ![t.url] = @ + 1]
  /\ requests' = Append(requests, Req("HEAD", t.url))
  /\ tasks' = Moved(t, "head", t.url)
  /\ UNCHANGED <<concurrency, interval, validateMode, visited, queue, results,
                 activeWorkers, runPc, resolveCount, getCount, errorLog, report,
                 headAnswers, probed, everQueued, linked, setCount, screenshots, parsed, targetUrl, enqueueOrder>>

\* lines 97-101: the catch block
Caught(t, msg) ==
  /\ errorLog' = errorLog \cup {ErrorLine(t.url, msg)}
  /\ results' = MapSet(results, t.url, CaughtResult(t.url, msg))
  /\ setCount' = [setCount EXCEPT ![t.url] = @ + 1]
  /\ tasks' = Moved(t, "settled", t.finalUrl)

\* lines 73-88: processUrl continues with the HEAD answer
AfterHead(t, resp) ==
  LET f == FinalUrl(resp, t.url)
  IN  IF RedirectVisited(visited, f, t.url)
        THEN /\ tasks' = Moved(t, "settled", f)
             /\ UNCHANGED <<visited, results, setCount, getCount, probed, requests>>
        ELSE /\ visited' = ClaimFinal(visited, f, t.url)
             /\ results' = MapSet(results, f,
                                  CrawlResult(f, NumStatus(resp.status), ~IsInternal(f)))
             /\ setCount' = [setCount EXCEPT ![f] = @ + 1]
             /\ probed' = probed \cup
                  {[url |-> f, status |-> resp.status, html |-> IncludesTextHtml(resp.contentType)]}
             /\ IF Qualifies(f, resp.contentType, resp.status)
                  THEN /\ getCount' = [getCount EXCEPT ![f] = @ + 1]
                       /\ requests' = Append(requests, Req("GET", f))
                       /\ tasks' = Moved(t, "get", f)
                  ELSE /\ getCount' = getCount
                       /\ requests' = requests
                       /\ tasks' = Moved(t, "settled", f)

\* the server answers the HEAD of line 72; the client hands the answer to
\* processUrl, or rejects it because of its status
HeadAnswered(t, resp) ==
  /\ t \in InFlight /\ t.pc = "head"
  /\ headAnswers' = headAnswers \cup
       {[url |-> t.url, status |-> resp.status,
         redirected |-> FinalUrl(resp, t.url) # t.url,
         final |-> FinalUrl(resp, t.url)]}
  /\ IF ValidateStatus(validateMode, resp.status)
       THEN /\ AfterHead(t, resp)
            /\ errorLog' = errorLog
       ELSE /\ Caught(t, StatusError(resp.status))
            /\ UNCHANGED <<visited, getCount, probed, requests>>
  /\ UNCHANGED <<concurrency, interval, validateMode, queue, activeWorkers, runPc,
                 resolveCount, headCount, report, everQueued, linked, screenshots, parsed, targetUrl, timers, enqueueOrder>>

\* the HEAD of line 72 gets no answer
HeadFailed(t, msg) ==
  /\ t \in InFlight /\ t.pc = "head"
  /\ msg \in NetErrors
  /\ Caught(t, msg)
  /\ UNCHANGED <<concurrency, interval, validateMode, visited, queue, activeWorkers,
                 runPc, resolveCount, headCount, getCount, report, headAnswers,
                 probed, everQueued, linked, screenshots, parsed, targetUrl, timers, requests, enqueueOrder>>

\* the links of lines 91-95 that are pushed, in order
RECURSIVE NotVisited(_, _)
NotVisited(links, v) ==
  IF links = <<>> THEN <<>>
  ELSE IF LinkUnvisited(v, Head(links))
         THEN <<Head(links)>> \o NotVisited(Tail(links), v)
         ELSE NotVisited(Tail(links), v)

\* lines 89-96: processUrl continues with the body of the GET answer
AfterGet(t, html) ==
  /\ LET pushed == NotVisited(extractLinks(html, t.finalUrl), visited)
     IN  /\ queue' = queue \o pushed
         /\ everQueued' = everQueued \cup SeqRange(pushed)
         /\ enqueueOrder' = NoteEnqueued(enqueueOrder, pushed, "link", t.finalUrl)
  /\ linked' = linked \cup AnchorTargets(html, t.finalUrl)
  /\ parsed' = parsed \cup {[url |-> t.finalUrl, html |-> html,
                              links |-> extractLinks(html, t.finalUrl)]}
  /\ tasks' = Moved(t, "settled", t.finalUrl)

GetResponses == [status : Statuses, data : Pages]

\* the server answers the GET of line 88
GetAnswered(t, resp) ==
  /\ t \in InFlight /\ t.pc = "get"
  /\ IF ValidateStatus(validateMode, resp.status)
       THEN /\ AfterGet(t, resp.data)
            /\ UNCHANGED <<results, setCount, errorLog>>
       ELSE /\ Caught(t, StatusError(resp.status))
            /\ UNCHANGED <<queue, everQueued, linked, parsed, enqueueOrder>>
  /\ UNCHANGED <<concurrency, interval, validateMode, visited, activeWorkers, runPc,
                 resolveCount, headCount, getCount, report, headAnswers, probed, screenshots, targetUrl, timers, requests>>

\* the GET of line 88 gets no answer
GetFailed(t, msg) ==
  /\ t \in InFlight /\ t.pc = "get"
  /\ msg \in NetErrors
  /\ Caught(t, msg)
  /\ UNCHANGED <<concurrency, interval, validateMode, visited, queue, activeWorkers,
                 runPc, resolveCount, headCount, getCount, report, headAnswers,
                 probed, everQueued, linked, screenshots, parsed, targetUrl, timers, requests, enqueueOrder>>

\* line 41, forgotten
WorkerDone_Forgotten(aw) == aw

\* line 41: this.activeWorkers--
WorkerDone(aw) == aw - 1

\* lines 40-43: the finally callback of a settled processUrl
Finally(t) ==
  /\ t \in InFlight /\ t.pc = "settled"
  /\ check([SchedState EXCEPT !.tasks = RemoveTask(tasks, t),
                              !.activeWorkers = WorkerDone(@)])
  /\ UNCHANGED <<concurrency, interval, validateMode, results, getCount, errorLog,
                 report, headAnswers, probed, everQueued, linked, setCount, screenshots, parsed, targetUrl, enqueueOrder>>

\* a.url.localeCompare(b.url) < 0, for the URLs of the model
UrlOrder == <<Seed, PageA, PageB, Ext>>
UrlRank(u) == CHOOSE i \in 1..Len(UrlOrder) : UrlOrder[i] = u
UrlBefore(a, b) == UrlRank(a) < UrlRank(b)

\* lines 129-130: the results sorted by URL
RECURSIVE SortedKeys(_)
SortedKeys(S) ==
  IF S = {} THEN <<>>
  ELSE LET m == CHOOSE x \in S : \A y \in S \ {x} : UrlBefore(x, y)
       IN  <<m>> \o SortedKeys(S \ {m})

\* lines 133-136: one line of the report
ReportLine(res) ==
  [ok |-> res.status.num /\ res.status.code < 400,
   status |-> res.status,
   tag |-> IF res.isExternal THEN "[External]" ELSE "[Internal]",
   url |-> res.url]

\* line 55 and printReport: run() continues after the await
PrintReport ==
  /\ runPc = "resolved"
  /\ runPc' = "done"
  /\ report' = [i \in 1..Cardinality(DOMAIN results) |->
                  ReportLine(results[SortedKeys(DOMAIN results)[i]])]
  /\ UNCHANGED <<concurrency, interval, validateMode, visited, queue, results,
                 activeWorkers, tasks, resolveCount, headCount, getCount, errorLog,
                 headAnswers, probed, everQueued, linked, setCount, screenshots, parsed, targetUrl, timers, requests, enqueueOrder>>

Next ==
  \/ RunStart
  \/ \E t \in InFlight : SleepDone(t)
  \/ \E t \in InFlight : \E resp \in HeadResponses : HeadAnswered(t, resp)
  \/ \E t \in InFlight : \E msg \in NetErrors : HeadFailed(t, msg)
  \/ \E t \in InFlight : \E resp \in GetResponses : GetAnswered(t, resp)
  \/ \E t \in InFlight : \E msg \in NetErrors : GetFailed(t, msg)
  \/ \E t \in InFlight : Finally(t)
  \/ PrintReport

Spec == Init /\ [][Next]_vars

\* the runs whose termination is checked: the queue filled by hand holds
\* internal pages only, as in the test of the concurrent run
FairInit == Init /\ SeqRange(queue) \subseteq {PageA}

\* every timer and request returns or fails and every queued callback is run:
\* as long as some callback is pending, one of them is eventually run
FairSpec == FairInit /\ [][Next]_vars /\ WF_vars(Next)

TypeOK ==
  /\ concurrency \in 0..MaxConcurrency
  /\ visited \subseteq Urls
  /\ SeqRange(queue) \subseteq Urls
  /\ DOMAIN results \subseteq Urls
  /\ runPc \in {"failed", "constructed", "awaiting", "resolved", "done"}

(***************************************************************************)
(* Properties                                                              *)
(***************************************************************************)
Resolved == runPc \in {"resolved", "done"}

\* C1: for a concurrency of at least 1, activeWorkers never exceeds
\* options.concurrency.
C1_WorkersWithinLimit == concurrency >= 1 => activeWorkers <= concurrency

\* the limit is reached while URLs are still waiting
C1_Witness == concurrency = 2 /\ activeWorkers = 2 /\ Len(queue) > 0

\* C2: no URL is passed to client.head() more than once in a run.
C2_HeadAtMostOnce == \A u \in Urls : headCount[u] <= 1

\* two processUrl calls for one URL are in flight together: one owns the URL,
\* the other has returned at the visited test
C2_Witness ==
  \E t1 \in InFlight : \E t2 \in InFlight :
    /\ t1.url = t2.url
    /\ t1.pc \in {"sleep", "head"}
    /\ t2.pc = "settled"
    /\ headCount[t1.url] <= 1

\* C3: a step that calls resolve() ends with an empty queue, activeWorkers = 0
\* and no processUrl call in flight.
C3_ResolveOnlyWhenDrained ==
  [][resolveCount' # resolveCount =>
       (Len(queue') = 0 /\ activeWorkers' = 0 /\ tasks' = EmptyBag)]_vars

\* the run has resolved after a crawl of several URLs with two workers
C3_Witness == runPc = "resolved" /\ concurrency = 2 /\ Cardinality(visited) >= 3

\* C4: resolve() is called at most once, and exactly once in a run that has
\* resolved.
C4_ResolvedExactlyOnce ==
  /\ resolveCount <= 1
  /\ Resolved <=> resolveCount = 1

\* resolved after several finally callbacks have re-run check()
C4_Witness ==
  resolveCount = 1 /\ concurrency = 2 /\ Cardinality(DOMAIN results) >= 3

\* C5: with a concurrency of at least 1, once run() is awaiting it eventually
\* resolves, whichever requests fail (under FairSpec).
C5_RunCompletes == (runPc = "awaiting" /\ concurrency >= 1) ~> Resolved

\* a run has resolved although some request failed and another succeeded
C5_Witness ==
  /\ runPc = "resolved"
  /\ \E u \in DOMAIN results : ~results[u].status.num
  /\ \E u \in DOMAIN results : results[u].status.num

\* C6: every URL that was ever in the queue is still in the queue or is in the
\* visited set, and when the run has resolved the queue is empty: every such
\* URL is then in the visited set.
C6_NothingLeftQueued ==
  /\ everQueued \subseteq (visited \cup SeqRange(queue))
  /\ Resolved => (queue = <<>> /\ everQueued \subseteq visited)

\* resolved after URLs filled in by hand, the seed and discovered links were queued
C6_Witness ==
  /\ runPc = "resolved"
  /\ Ext \in everQueued
  /\ Cardinality(everQueued) >= 3

\* C7: when the run has resolved, every link to another host found on a parsed
\* page has received exactly one HEAD and no GET.
C7_ExternalLinkProbedOnce ==
  Resolved => \A u \in linked : ~IsInternal(u) => (headCount[u] = 1 /\ getCount[u] = 0)

\* C8: a URL has received one GET if processUrl went on with a HEAD answer for
\* it that is internal, 200 and HTML, and no GET otherwise.
C8_GetOnlyForQualifyingProbe ==
  \A u \in Urls :
    getCount[u] = IF \E p \in probed : /\ p.url = u
                                       /\ p.status = 200
                                       /\ p.html
                                       /\ hostname(u) = BaseHost
                    THEN 1 ELSE 0

\* one page was fetched, and an external page answering 200 and HTML was not
C8_Witness ==
  /\ \E u \in Urls : getCount[u] = 1
  /\ \E p \in probed : p.url = Ext /\ p.status = 200 /\ p.html
  /\ \E p \in probed : hostname(p.url) = BaseHost /\ p.status = 404
  /\ getCount[Ext] = 0

Messages == NetErrors \cup {StatusError(s) : s \in Statuses}

\* C9: every processUrl call that has not run its finally callback holds one
\* unit of activeWorkers, and a step that logs an error is the catch block of
\* one task: it records the "ERR: " result with isExternal = false under the
\* requested URL, leaves that task to its finally callback, and changes neither
\* the queue, the visited set, activeWorkers nor any other task.
C9_FailureContained ==
  /\ [](activeWorkers = BagCardinality(tasks))
  /\ [][errorLog' # errorLog =>
         \E t \in InFlight : \E msg \in Messages :
           /\ t.pc \in {"head", "get"}
           /\ errorLog' = errorLog \cup {[url |-> t.url, message |-> msg]}
           /\ results' = MapSet(results, t.url,
                [url |-> t.url,
                 status |-> [num |-> FALSE, code |-> 0, text |-> <<"ERR: ">> \o msg],
                 isExternal |-> FALSE])
           /\ tasks' = Moved(t, "settled", t.finalUrl)
           /\ UNCHANGED <<queue, visited, activeWorkers, runPc, resolveCount>>]_vars

\* a request has failed while another task is in flight and a URL is queued
C9_Witness ==
  /\ \E u \in DOMAIN results : ~results[u].status.num
  /\ \E t \in InFlight : t.pc = "head" /\ t.url \notin DOMAIN results
  /\ Len(queue) > 0

Mentions(text, token) == \E i \in 1..Len(text) : text[i] = token
SeedNotFound == \E a \in headAnswers : a.url = Seed /\ a.status = 404

\* C10 as stated: when the HEAD of the seed was answered 404 and the run has
\* resolved, an error mentioning 404 has been logged and a result with that
\* status is recorded for the seed.
C10_Original ==
  (Resolved /\ SeedNotFound) =>
    /\ \E line \in errorLog : Mentions(line.message, "404")
    /\ Seed \in DOMAIN results
    /\ \/ results[Seed].status = NumStatus(404)
       \/ Mentions(results[Seed].status.text, "404")

\* C10, amended: when the HEAD of the seed was answered 404 and the run has
\* resolved: a client that accepts every status has logged no error for the
\* seed and, unless the answer came from a redirect, the numeric result 404 is
\* recorded for the seed; a client that rejects statuses outside 2xx has logged
\* an error mentioning 404 and the "ERR: " result is recorded for the seed.
C10_SeedNotFound ==
  (Resolved /\ SeedNotFound) =>
    IF validateMode = "all"
      THEN /\ \A line \in errorLog : line.url # Seed
           /\ (\E a \in headAnswers : a.url = Seed /\ ~a.redirected) =>
                /\ Seed \in DOMAIN results
                /\ results[Seed] =
                     [url |-> Seed,
                      status |-> [num |-> TRUE, code |-> 404, text |-> <<>>],
                      isExternal |-> FALSE]
      ELSE /\ [url |-> Seed,
               message |-> <<"Request failed with status code ", "404">>] \in errorLog
           /\ Seed \in DOMAIN results
           /\ results[Seed] =
                [url |-> Seed,
                 status |-> [num |-> FALSE, code |-> 0,
                             text |-> <<"ERR: ", "Request failed with status code ", "404">>],
                 isExternal |-> FALSE]

\* the seed was answered 404 and the run has resolved and reported
C10_Witness == runPc = "done" /\ SeedNotFound /\ Seed \in DOMAIN results

\* C11: no key of the result map is written more than once in a run.
C11_ResultWrittenOnce == \A u \in Urls : setCount[u] <= 1

\* C12: options.screenshot has been called exactly once for every page whose GET
\* was answered and parsed, and never for another URL.
C12_ScreenshotOncePerPage ==
  \A u \in Urls :
    Cardinality({i \in DOMAIN screenshots : screenshots[i].url = u})
      = IF \E p \in parsed : p.url = u THEN 1 ELSE 0

\* C13: whatever the concurrency option, a run that is awaiting has dispatched
\* at least one worker (the limit in use is at least 1).
C13_DispatchesWithoutConcurrency == runPc = "awaiting" => activeWorkers >= 1

\* C14: every key of the result map is in the visited set.
C14_ResultsAreVisited == DOMAIN results \subseteq visited

\* results are recorded under a redirect target that was never in the queue,
\* and under the URL of a failed request
C14_Witness ==
  /\ \E u \in DOMAIN results : u \notin everQueued
  /\ \E u \in DOMAIN results : ~results[u].status.num

NothingDone ==
  /\ queue = <<>> /\ everQueued = {} /\ visited = {} /\ results = <<>>
  /\ \A u \in Urls : headCount[u] = 0 /\ getCount[u] = 0

\* C15: a target URL without a scheme makes the constructor fail, and then
\* nothing is ever enqueued, requested or recorded; the constructor fails for
\* no other reason, and every error logged during a run has its "ERR: " result.
C15_MalformedSeedAborts ==
  /\ targetUrl.scheme = "" => (runPc = "failed" /\ NothingDone)
  /\ runPc = "failed" => targetUrl.scheme = ""
  /\ \A line \in errorLog :
       line.url \in DOMAIN results /\ ~results[line.url].status.num

\* the constructor has thrown on "example.com"
C15_Witness == runPc = "failed" /\ targetUrl = Target("", BaseHost, "")

\* the step in which task t, waiting for its HEAD, learns the final URL f
\* that differs from the URL it was given
Redirected(t, f) ==
  /\ t.pc = "head" /\ f # t.url
  /\ tasks' \in {Moved(t, "settled", f), Moved(t, "get", f)}

\* C16: a task whose HEAD ends at another URL f stops when f is already in the
\* visited set: no result is written, no GET is sent, nothing is enqueued;
\* otherwise it adds f to the visited set in that very step, and f had no
\* result and no GET before, so the result it writes is the first under f.
C16_RedirectClaimedOnce ==
  [][\A t \in InFlight : \A f \in Urls :
       Redirected(t, f) =>
         IF f \in visited
           THEN /\ tasks' = Moved(t, "settled", f)
                /\ UNCHANGED <<results, setCount, getCount, queue, visited>>
           ELSE /\ f \in visited'
                /\ f \notin DOMAIN results /\ getCount[f] = 0
                /\ f \in DOMAIN results' /\ getCount'[f] <= 1]_vars

\* two tasks in flight were redirected to the same URL: one went on to GET it,
\* the other has stopped
C16_Witness ==
  \E t1 \in InFlight : \E t2 \in InFlight :
    /\ t1.url # t2.url /\ t1.finalUrl = t2.finalUrl
    /\ t1.finalUrl # t1.url /\ t2.finalUrl # t2.url
    /\ t1.pc = "get" /\ t2.pc = "settled"
    /\ setCount[t1.finalUrl] = 1

IsHead(r) == r.method = "HEAD"

\* the position of the first push of u among the first pushes
EnqueueRank(u) == CHOOSE k \in 1..Len(enqueueOrder) : enqueueOrder[k].url = u

\* the HEAD of every URL was sent after the URL had been pushed, and the HEADs
\* were sent in the order of the first pushes of their URLs
HeadsInEnqueueOrder ==
  LET heads == SelectSeq(requests, IsHead)
  IN  /\ \A i \in 1..Len(heads) :
           \E k \in 1..Len(enqueueOrder) : enqueueOrder[k].url = heads[i].url
      /\ \A i \in 1..Len(heads) : \A j \in 1..Len(heads) :
           i < j => EnqueueRank(heads[i].url) < EnqueueRank(heads[j].url)

\* the HEAD of a URL first pushed as a link of a page was sent after the GET
\* of that page, whose answer has been parsed and held the link
ProbedAfterDiscovery ==
  \A i \in 1..Len(requests) : \A k \in 1..Len(enqueueOrder) :
    (IsHead(requests[i]) /\ enqueueOrder[k].url = requests[i].url
       /\ enqueueOrder[k].origin = "link") =>
      /\ \E j \in 1..(i - 1) : requests[j] = Req("GET", enqueueOrder[k].page)
      /\ \E p \in parsed : /\ p.url = enqueueOrder[k].page
                           /\ requests[i].url \in SeqRange(p.links)

\* concurrency 1, nothing pushed by hand, the seed page has been parsed and
\* link is the first of its links that was pushed
ScenarioA(link) ==
  /\ concurrency = 1
  /\ enqueueOrder # <<>> /\ enqueueOrder[1].url = Seed
  /\ \E p \in parsed :
       /\ p.url = Seed
       /\ NotVisited(p.links, {Seed}) # <<>>
       /\ Head(NotVisited(p.links, {Seed})) = link

Once(r) == Cardinality({i \in 1..Len(requests) : requests[i] = r}) = 1

\* C17: HEADs are sent in the order their URLs were first pushed, a URL found
\* as a link is probed only after the GET of the page it was found on, and
\* with concurrency 1 and a seed page whose first new link is /a the requests
\* begin with HEAD(seed), GET(seed), HEAD(/a), each sent exactly once.
C17_FifoDispatch ==
  /\ HeadsInEnqueueOrder
  /\ ProbedAfterDiscovery
  /\ \A link \in Urls :
       ScenarioA(link) =>
         /\ Len(requests) >= 2
         /\ requests[1] = Req("HEAD", Seed) /\ Once(Req("HEAD", Seed))
         /\ requests[2] = Req("GET", Seed) /\ Once(Req("GET", Seed))
         /\ Len(requests) >= 3 =>
              (requests[3] = Req("HEAD", link) /\ Once(Req("HEAD", link)))
         /\ Resolved => Len(requests) >= 3

\* scenario A has run to its end
C17_Witness ==
  /\ ScenarioA(PageA) /\ Resolved
  /\ SubSeq(requests, 1, 3) = <<Req("HEAD", Seed), Req("GET", Seed), Req("HEAD", PageA)>>

NoDuplicates(q) == \A i \in 1..Len(q) : \A j \in 1..Len(q) : q[i] = q[j] => i = j

\* the same-host targets, fragment removed, of the anchors of a document whose
\* href is in the set of kinds given and resolves
SameHostTargets(html, base, kinds) ==
  {u \in {StripHash(ResolveUrl(html[i], base)) :
            i \in {j \in 1..Len(html) : html[j].kind \in kinds}} :
     hostname(u) = BaseHost}

\* the links of lines 91-95 are pushed exactly when they are not in the
\* visited set: a step that parses a page appends them to the queue
PushedWereUnvisited ==
  \A p \in parsed' \ parsed :
    /\ Len(queue') >= Len(queue)
    /\ SubSeq(queue', 1, Len(queue)) = queue
    /\ SeqRange(SubSeq(queue', Len(queue) + 1, Len(queue'))) = SeqRange(p.links) \ visited

\* C18 as stated: the links returned for a page are, without duplicates, the
\* same-host targets of all its anchors with an href that resolves, and the
\* links pushed were not in the visited set.
C18_Original ==
  /\ [](\A p \in parsed :
          /\ NoDuplicates(p.links)
          /\ SeqRange(p.links) = SameHostTargets(p.html, p.url, {"rel", "abs", "empty"}))
  /\ [][PushedWereUnvisited]_vars

\* C18: the links returned for a page are, without duplicates, the same-host
\* targets of its anchors with a non-empty href that resolves; an href that
\* does not resolve does not end the extraction; the links pushed are those not
\* in the visited set.
C18_ExtractLinks ==
  /\ [](\A p \in parsed :
          /\ NoDuplicates(p.links)
          /\ SeqRange(p.links) = SameHostTargets(p.html, p.url, {"rel", "abs"}))
  /\ [][PushedWereUnvisited]_vars

\* a parsed page held an empty href, an external link and a link that was
\* pushed; another held an href that does not resolve before a link returned
C18_Witness ==
  /\ \E p \in parsed :
       /\ \E i \in 1..Len(p.html) : p.html[i] = EmptyHref
       /\ \E i \in 1..Len(p.html) : p.html[i].kind = "abs" /\ p.html[i].host = OtherHost
       /\ \E i \in 1..Len(p.links) : p.links[i] \in SeqRange(queue)
  /\ \E p \in parsed :
       \E i \in 1..Len(p.html) :
         /\ p.html[i] = BadHref
         /\ \E j \in (i + 1)..Len(p.html) :
              StripHash(ResolveUrl(p.html[j], p.url)) \in SeqRange(p.links)

\* C19: once resolve() has been called no processUrl call is pending, and no
\* step changes the result map, the visited set, the queue, activeWorkers or
\* the requests sent: the only step left is the report, which reads.
C19_NothingAfterCompletion ==
  /\ [](Resolved => (tasks = EmptyBag /\ timers = <<>>))
  /\ [][Resolved => UNCHANGED <<results, visited, queue, activeWorkers, tasks,
                                 setCount, requests, errorLog>>]_vars

\* the report of a run that recorded three results has been printed
C19_Witness == runPc = "done" /\ Len(report) >= 3 /\ resolveCount = 1

\* no URL that a HEAD was redirected to has itself been answered with a redirect
NoChainedRedirect ==
  \A a \in headAnswers : \A b \in headAnswers :
    (a.final # a.url /\ b.url = a.final) => b.final = b.url

\* u has a result of its own, or the HEAD of u ended at another URL that has one
AccountedFor(u) ==
  \/ u \in DOMAIN results
  \/ \E a \in headAnswers : a.url = u /\ a.final # u /\ a.final \in DOMAIN results

\* C20: when the run has resolved, and no redirect target was itself
\* redirected, every visited URL has a result under its own key or under the
\* key of the URL its HEAD ended at.
C20_VisitedAccountedFor ==
  (Resolved /\ NoChainedRedirect) => \A u \in visited : AccountedFor(u)

\* a resolved run in which a visited URL has no result of its own: its HEAD
\* ended at a URL that another task had claimed
C20_Witness ==
  /\ Resolved /\ NoChainedRedirect
  /\ \E u \in visited : u \notin DOMAIN results
  /\ \E a \in headAnswers : \E b \in headAnswers : a.url # b.url /\ a.final = b.final

====
